---- MODULE Spec2Model ----
(***************************************************************************)
(* b58uuid: Base58 encoding and decoding of 16-byte UUIDs (src/src/lib.rs). *)
(*                                                                         *)
(* A character is its Unicode scalar value, a string is a sequence of      *)
(* characters, a byte array is a sequence of numbers in 0..255.  A u128 is *)
(* eight 16-bit limbs, most significant first: every intermediate product  *)
(* of the arithmetic is a small number, and the arithmetic keeps its full   *)
(* 128-bit width.                                                          *)
(***************************************************************************)
EXTENDS Integers, Sequences, FiniteSets, TLC

(* ------------------------------------------------------------------ *)
(* Generic helpers                                                    *)
(* ------------------------------------------------------------------ *)

Repeat(x, n) == [i \in 1..n |-> x]

Reverse(s) == [i \in 1..Len(s) |-> s[Len(s) + 1 - i]]

Min(a, b) == IF a < b THEN a ELSE b

(* Characters the code names. *)
ChOne == 49
ChHyphen == 45
ChPlus == 43

(* Result values: Ok(v) or one variant of B58UUIDError (lib.rs 26-31); a *)
(* panic is the remaining way a Rust call can end.                       *)
Ok(v) == [tag |-> "Ok", val |-> v]
ErrEmpty == [tag |-> "InvalidBase58", why |-> "Empty Base58 string"]
ErrChar(i, ch) == [tag |-> "InvalidBase58", why |-> "Invalid character", pos |-> i, ch |-> ch]
ErrLeadingOnes == [tag |-> "InvalidBase58", why |-> "Too many leading '1' characters"]
ErrOverflow == [tag |-> "Overflow"]
ErrLength(e, g) == [tag |-> "InvalidLength", expected |-> e, got |-> g]
ErrHex(p) == [tag |-> "InvalidUUID", why |-> "Invalid hex", pos |-> p]
Panic(why) == [tag |-> "Panic", why |-> why]

(* ------------------------------------------------------------------ *)
(* Alphabet table                                                     *)
(* ------------------------------------------------------------------ *)

(* Variant: lowercase before uppercase (the Flickr alphabet),      *)
(* "123456789abcdefghijkmnopqrstuvwxyzABCDEFGHJKLMNPQRSTUVWXYZ". *)
FLICKR_ALPHABET ==
    [i \in 1..58 |->
        IF i <= 9 THEN 48 + i
        ELSE IF i <= 20 THEN 87 + i
        ELSE IF i <= 34 THEN 88 + i
        ELSE IF i <= 42 THEN 30 + i
        ELSE IF i <= 47 THEN 31 + i
        ELSE 32 + i]

(* "123456789ABCDEFGHJKLMNPQRSTUVWXYZabcdefghijkmnopqrstuvwxyz" *)
BASE58_ALPHABET ==
    <<49, 50, 51, 52, 53, 54, 55, 56, 57, 65, 66, 67, 68, 69, 70, 71, 72, 74,
    75, 76, 77, 78, 80, 81, 82, 83, 84, 85, 86, 87, 88, 89, 90, 97, 98, 99, 100,
    101, 102, 103, 104, 105, 106, 107, 109, 110, 111, 112, 113, 114, 115, 116,
    117, 118, 119, 120, 121, 122>>

(* table[alphabet_bytes[i]] = i for i < 58, 255 elsewhere. *)
REVERSE_ALPHABET ==
    [b \in 0..255 |->
        IF \E i \in 1..Len(BASE58_ALPHABET) : BASE58_ALPHABET[i] = b
        THEN (CHOOSE i \in 1..Len(BASE58_ALPHABET) : BASE58_ALPHABET[i] = b) - 1
        ELSE 255]

(* ------------------------------------------------------------------ *)
(* u128 arithmetic                                                    *)
(* ------------------------------------------------------------------ *)

LimbBase == 65536
NumLimbs == 8

U128Zero == Repeat(0, NumLimbs)

IsZero(num) == \A i \in 1..NumLimbs : num[i] = 0

(* Variant: the bytes read least significant first (u128::from_le_bytes). *)
from_le_bytes(data) == [i \in 1..NumLimbs |-> data[18 - 2 * i] * 256 + data[17 - 2 * i]]

(* u128::from_be_bytes: byte 0 is the most significant. *)
from_be_bytes(data) == [i \in 1..NumLimbs |-> data[2 * i - 1] * 256 + data[2 * i]]

(* u128::to_be_bytes. *)
to_be_bytes(num) ==
    [i \in 1..16 |-> IF i % 2 = 1 THEN num[(i + 1) \div 2] \div 256
                                  ELSE num[i \div 2] % 256]

(* num / d and num % d for a small divisor d, by long division from the *)
(* most significant limb.                                               *)
RECURSIVE DivRemFrom(_, _, _, _, _)
DivRemFrom(num, d, i, rem, quo) ==
    IF i > NumLimbs THEN [quo |-> quo, rem |-> rem]
    ELSE LET cur == rem * LimbBase + num[i]
         IN  DivRemFrom(num, d, i + 1, cur % d, Append(quo, cur \div d))

DivRem(num, d) == DivRemFrom(num, d, 1, 0, <<>>)

(* num * m + a for small m and a, from the least significant limb; the *)
(* carry out of the top limb is what does not fit in 128 bits.         *)
RECURSIVE MulAddFrom(_, _, _, _)
MulAddFrom(num, m, i, carry) ==
    IF i = 0 THEN [val |-> num, carry |-> carry]
    ELSE LET cur == num[i] * m + carry
         IN  MulAddFrom([num EXCEPT ![i] = cur % LimbBase], m, i - 1, cur \div LimbBase)

None == [some |-> FALSE]
Some(v) == [some |-> TRUE, val |-> v]

(* Variant: the product modulo 2^128 (u128::wrapping_mul). *)
wrapping_mul(num, m) == Some(MulAddFrom(num, m, NumLimbs, 0).val)

(* u128::checked_mul: None when the product exceeds u128::MAX. *)
checked_mul(num, m) ==
    LET r == MulAddFrom(num, m, NumLimbs, 0)
    IN  IF r.carry > 0 THEN None ELSE Some(r.val)

(* u128::checked_add: None when the sum exceeds u128::MAX. *)
checked_add(num, a) ==
    LET r == MulAddFrom(num, 1, NumLimbs, a)
    IN  IF r.carry > 0 THEN None ELSE Some(r.val)

(* ------------------------------------------------------------------ *)
(* encode                                                             *)
(* ------------------------------------------------------------------ *)

(* lib.rs 71-78: the number of zero bytes before the first nonzero one. *)
RECURSIVE CountLeading(_, _, _)
CountLeading(s, x, i) ==
    IF i > Len(s) \/ s[i] # x THEN i - 1 ELSE CountLeading(s, x, i + 1)

(* Variant: every zero byte counted, the loop never left early. *)
count_zero_bytes(data) == Cardinality({i \in 1..Len(data) : data[i] = 0})

leading_zeros(data) == CountLeading(data, 0, 1)

(* lib.rs 89-93: the digits of num, least significant first. *)
RECURSIVE DigitLoop(_, _)
DigitLoop(num, result) ==
    IF IsZero(num) THEN result
    ELSE LET qr == DivRem(num, 58)
         IN  DigitLoop(qr.quo, Append(result, BASE58_ALPHABET[qr.rem + 1]))

(* Variant: the string left as the digit loop made it. *)
Unpadded(text) == text

(* lib.rs 104-107: left-pad with '1' to 22 characters. *)
PadEncoded(text) ==
    IF Len(text) < 22 THEN Repeat(ChOne, 22 - Len(text)) \o text
    ELSE text

(* lib.rs 86-103: the digits, one '1' per leading zero byte, reversed; *)
(* the string before it is padded.                                     *)
encoded(data) ==
    Reverse(DigitLoop(from_be_bytes(data), <<>>) \o Repeat(ChOne, leading_zeros(data)))

encode(data) ==
    IF leading_zeros(data) = 16 THEN Repeat(ChOne, 22)
    ELSE PadEncoded(encoded(data))

(* ------------------------------------------------------------------ *)
(* decode                                                             *)
(* ------------------------------------------------------------------ *)

is_ascii(ch) == ch < 128

(* lib.rs 138-145. *)
leading_ones(b58) == CountLeading(b58, ChOne, 1)

(* lib.rs 148-177: the accumulation loop from character i (1-based; the *)
(* reported position is the 0-based i - 1), ending in the number or in  *)
(* the first error met.                                                 *)
RECURSIVE DecodeLoop(_, _, _)
DecodeLoop(b58, i, num) ==
    IF i > Len(b58) THEN Ok(num)
    ELSE LET ch == b58[i]
         IN  IF ch = ChOne /\ i - 1 < leading_ones(b58)
             THEN DecodeLoop(b58, i + 1, num)
             ELSE IF ~is_ascii(ch) \/ ch >= 256
             THEN ErrChar(i - 1, ch)
             ELSE IF REVERSE_ALPHABET[ch] = 255
             THEN ErrChar(i - 1, ch)
             ELSE LET m == checked_mul(num, 58)
                  IN  IF ~m.some THEN ErrOverflow
                      ELSE LET a == checked_add(m.val, REVERSE_ALPHABET[ch])
                           IN  IF ~a.some THEN ErrOverflow
                               ELSE DecodeLoop(b58, i + 1, a.val)

decode(b58) ==
    IF Len(b58) = 0 THEN ErrEmpty
    ELSE LET r == DecodeLoop(b58, 1, U128Zero)
         IN  IF r.tag # "Ok" THEN r
             ELSE IF leading_ones(b58) > 22 THEN ErrLeadingOnes
             ELSE Ok(to_be_bytes(r.val))

(* ------------------------------------------------------------------ *)
(* Strings as Rust sees them: UTF-8 bytes behind the characters       *)
(* ------------------------------------------------------------------ *)

(* char::len_utf8 *)
len_utf8(ch) == IF ch < 128 THEN 1 ELSE IF ch < 2048 THEN 2 ELSE IF ch < 65536 THEN 3 ELSE 4

(* The byte offset of the character after the first n characters. *)
RECURSIVE ByteOffset(_, _)
ByteOffset(s, n) == IF n = 0 THEN 0 ELSE ByteOffset(s, n - 1) + len_utf8(s[n])

(* str::len: the length in bytes. *)
str_len(s) == ByteOffset(s, Len(s))

(* The number of characters that end at byte offset k, or -1 when k is *)
(* inside a character or past the end.                                 *)
RECURSIVE BoundaryFrom(_, _, _, _)
BoundaryFrom(s, k, n, off) ==
    IF off = k THEN n
    ELSE IF off > k \/ n = Len(s) THEN -1
    ELSE BoundaryFrom(s, k, n + 1, off + len_utf8(s[n + 1]))

(* str::is_char_boundary *)
is_char_boundary(s, k) == BoundaryFrom(s, k, 0, 0) >= 0

(* &s[a..b]: the characters lying in bytes a..b, or a panic when a or b *)
(* is not a character boundary.                                         *)
str_slice(s, a, b) ==
    IF a > b \/ ~is_char_boundary(s, a) \/ ~is_char_boundary(s, b)
    THEN Panic("byte index is not a char boundary")
    ELSE Ok(SubSeq(s, BoundaryFrom(s, a, 0, 0) + 1, BoundaryFrom(s, b, 0, 0)))

(* str::replace(ch, ""): every occurrence of ch removed. *)
RECURSIVE str_remove(_, _)
str_remove(s, ch) ==
    IF Len(s) = 0 THEN <<>>
    ELSE IF s[1] = ch THEN str_remove(Tail(s), ch)
    ELSE <<s[1]>> \o str_remove(Tail(s), ch)

(* Variant: lowercase letters only. *)
to_digit_lower(ch) ==
    IF ch >= 48 /\ ch <= 57 THEN ch - 48
    ELSE IF ch >= 97 /\ ch <= 102 THEN ch - 87
    ELSE -1

(* char::to_digit(16): 0-9, a-f, A-F; -1 stands for None. *)
to_digit(ch) ==
    IF ch >= 48 /\ ch <= 57 THEN ch - 48
    ELSE IF ch >= 97 /\ ch <= 102 THEN ch - 87
    ELSE IF ch >= 65 /\ ch <= 70 THEN ch - 55
    ELSE -1

(* u8::from_str_radix(src, 16) of the standard library: an empty string *)
(* and a lone sign are errors, one leading '+' is dropped, and every    *)
(* remaining character must be a hex digit.                             *)
from_str_radix(src) ==
    IF Len(src) = 0 THEN None
    ELSE IF Len(src) = 1 /\ src[1] \in {ChPlus, ChHyphen} THEN None
    ELSE LET digits == IF src[1] = ChPlus THEN Tail(src) ELSE src
             value[n \in 0..Len(digits)] ==
                 IF n = 0 THEN 0 ELSE value[n - 1] * 16 + to_digit(digits[n])
         IN  IF \E n \in 1..Len(digits) : to_digit(digits[n]) = -1 THEN None
             ELSE IF value[Len(digits)] > 255 THEN None
             ELSE Some(value[Len(digits)])

(* ------------------------------------------------------------------ *)
(* encode_uuid, decode_to_uuid, generate                              *)
(* ------------------------------------------------------------------ *)

(* Variant: only the first hyphen removed (str::replacen with count 1). *)
RECURSIVE remove_first_hyphen(_)
remove_first_hyphen(uuid_str) ==
    IF Len(uuid_str) = 0 THEN <<>>
    ELSE IF uuid_str[1] = ChHyphen THEN Tail(uuid_str)
    ELSE <<uuid_str[1]>> \o remove_first_hyphen(Tail(uuid_str))

(* lib.rs 245 *)
cleaned(uuid_str) == str_remove(uuid_str, ChHyphen)

(* lib.rs 254-266: groups i..15 parsed into bytes, ending at the first *)
(* group that panics or fails to parse.                                *)
RECURSIVE ParseGroups(_, _, _)
ParseGroups(cl, i, bytes) ==
    IF i = 16 THEN Ok(bytes)
    ELSE LET hex_byte == str_slice(cl, i * 2, i * 2 + 2)
         IN  IF hex_byte.tag = "Panic" THEN hex_byte
             ELSE LET parsed == from_str_radix(hex_byte.val)
                  IN  IF ~parsed.some THEN ErrHex(i * 2)
                      ELSE ParseGroups(cl, i + 1, Append(bytes, parsed.val))

encode_uuid(uuid_str) ==
    IF str_len(cleaned(uuid_str)) # 32
    THEN ErrLength(32, str_len(cleaned(uuid_str)))
    ELSE LET r == ParseGroups(cleaned(uuid_str), 0, <<>>)
         IN  IF r.tag # "Ok" THEN r ELSE Ok(encode(r.val))

(* "0123456789abcdef" *)
HexLower == <<48, 49, 50, 51, 52, 53, 54, 55, 56, 57, 97, 98, 99, 100, 101, 102>>

(* Variant: no zero padding (format!("{:x}", byte)). *)
fmt_x(byte) ==
    IF byte < 16 THEN <<HexLower[byte + 1]>>
    ELSE <<HexLower[(byte \div 16) + 1], HexLower[(byte % 16) + 1]>>

(* format!("{:02x}", byte) *)
fmt_02x(byte) == <<HexLower[(byte \div 16) + 1], HexLower[(byte % 16) + 1]>>

RECURSIVE fmt_bytes(_, _, _)
fmt_bytes(bytes, from, to) ==
    IF from > to THEN <<>> ELSE fmt_02x(bytes[from]) \o fmt_bytes(bytes, from + 1, to)

(* lib.rs 289-295: 8-4-4-4-12 with hyphens. *)
fmt_uuid(bytes) ==
    fmt_bytes(bytes, 1, 4) \o <<ChHyphen>> \o fmt_bytes(bytes, 5, 6) \o <<ChHyphen>>
    \o fmt_bytes(bytes, 7, 8) \o <<ChHyphen>> \o fmt_bytes(bytes, 9, 10) \o <<ChHyphen>>
    \o fmt_bytes(bytes, 11, 16)

decode_to_uuid(b58) ==
    LET r == decode(b58)
    IN  IF r.tag # "Ok" THEN r ELSE Ok(fmt_uuid(r.val))

(* Variant: the marker bits set without clearing the others *)
(* (bytes[6] | 0x40, bytes[8] | 0x80).                       *)
or_version_variant(bytes) ==
    [bytes EXCEPT ![7] = IF (bytes[7] \div 64) % 2 = 1 THEN bytes[7] ELSE bytes[7] + 64,
                  ![9] = IF bytes[9] >= 128 THEN bytes[9] ELSE bytes[9] + 128]

(* lib.rs 223-224 on the bytes the entropy source delivered. *)
set_version_variant(bytes) ==
    [bytes EXCEPT ![7] = (bytes[7] % 16) + 64, ![9] = (bytes[9] % 64) + 128]

(* lib.rs 215-227; random is the 16 bytes getrandom wrote, or None when *)
(* it failed, which the expect turns into a panic.                      *)
generate(random) ==
    IF ~random.some THEN Panic("Failed to generate random bytes")
    ELSE Ok(encode(set_version_variant(random.val)))

(* ------------------------------------------------------------------ *)
(* Inputs                                                             *)
(* ------------------------------------------------------------------ *)

(* Bounds of the input sets. *)
NumFirst == 2
NumFill == 2
NumVectors == 4
MaxOnes == 24
MaxZ == 23
NumBadB58 == 5
NumUuid == 2
MaxCase == 2
MaxHyph == 2
MaxEditPos == 3
NumBadHex == 5
MaxTrunc == 8

Take(s, n) == {s[i] : i \in 1..Min(n, Len(s))}

FirstBytes == Take(<<255, 1, 128, 58, 2>>, NumFirst)
FillBytes == Take(<<255, 0, 85, 170, 1>>, NumFill)

(* Byte arrays of the tests (test_official_test_vectors and others). *)
TestVectors ==
    << <<85, 14, 132, 0, 226, 155, 65, 212, 167, 22, 68, 102, 85, 68, 0, 0>>,
       <<1, 2, 3, 4, 5, 6, 7, 8, 9, 10, 11, 12, 13, 14, 15, 16>>,
       <<0, 17, 34, 51, 68, 85, 102, 119, 136, 153, 170, 187, 204, 221, 238, 255>>,
       <<255, 0, 0, 0, 255, 0, 0, 255, 0, 255, 255, 0, 0, 0, 0, 255>>,
       <<222, 173, 190, 239, 202, 254, 186, 190, 1, 35, 69, 103, 137, 171, 205, 239>>,
       <<0, 0, 0, 0, 0, 0, 0, 0, 0, 0, 0, 0, 0, 0, 0, 1>> >>

VectorBytes == Take(TestVectors, NumVectors)

(* k leading zero bytes, a nonzero byte, then one byte repeated. *)
Pattern(k, first, fill) == Repeat(0, k) \o <<first>> \o Repeat(fill, 15 - k)

ByteArrays ==
    {Repeat(0, 16)} \cup VectorBytes
    \cup {Pattern(k, first, fill) : k \in 0..15, first \in FirstBytes, fill \in FillBytes}

ChZ == 122

(* Characters outside the alphabet: 0 O I l, a-umlaut, a CJK character, *)
(* '!', an emoji.                                                       *)
BadB58Chars == Take(<<48, 228, 79, 73, 108, 20013, 33, 128512>>, NumBadB58)

(* "YcVfxkQb6JRzqk5kF2tNLv", the encoding of u128::MAX, and its successor. *)
MaxB58 ==
    <<89, 99, 86, 102, 120, 107, 81, 98, 54, 74, 82, 122, 113, 107, 53, 107, 70, 50, 116,
      78, 76, 118>>
MaxB58Plus1 == [MaxB58 EXCEPT ![22] = 119]

(* "BWBeN28Vb7cMEx7Ym8AUzs" (test_decode_basic) *)
VectorB58 ==
    <<66, 87, 66, 101, 78, 50, 56, 86, 98, 55, 99, 77, 69, 120, 55, 89, 109, 56, 65, 85,
      122, 115>>

(* Strings of alphabet characters; <<50>> is "2", <<50, 49, 49>> is "211". *)
ValidBodies ==
    {<<>>, MaxB58, MaxB58Plus1, VectorB58, <<50>>, <<50, 49, 49>>}
    \cup {Repeat(ChZ, n) : n \in 1..MaxZ}

(* A body with one character outside the alphabet before, inside or after it. *)
InsertAt(s, at, ch) ==
    LET k == Min(at, Len(s))
    IN  SubSeq(s, 1, k) \o <<ch>> \o SubSeq(s, k + 1, Len(s))

BadBodies ==
    {InsertAt(body, at, ch) :
        body \in {<<>>, <<50>>, SubSeq(VectorB58, 1, 20), Repeat(ChZ, 22)},
        at \in {0, 1, 22},
        ch \in BadB58Chars}

B58Strings ==
    {Repeat(ChOne, n) \o body : n \in 0..MaxOnes, body \in ValidBodies \cup BadBodies}

(* UUID texts: the 32 hex digits of some bytes in a letter case, one *)
(* edit applied, then hyphens inserted.                             *)

UuidBytes == Take(<<TestVectors[1], TestVectors[5], Repeat(255, 16), Repeat(0, 16)>>, NumUuid)

(* Case style 0 is lowercase, 1 is uppercase, c >= 2 makes uppercase the *)
(* letters at positions p with p % c = 1.                                *)
UpperAt(c, p) == c = 1 \/ (c >= 2 /\ p % c = 1)

(* The hex digit of value v as a character, lowercase or uppercase. *)
HexChar(v, upper) == IF v < 10 THEN 48 + v ELSE IF upper THEN 55 + v ELSE 87 + v

Render(bytes, c) ==
    [p \in 1..32 |->
        LET byte == bytes[(p + 1) \div 2]
        IN  HexChar(IF p % 2 = 1 THEN byte \div 16 ELSE byte % 16, UpperAt(c, p))]

(* Characters that are no hex digit: g + space a-umlaut CJK G emoji. *)
BadHexChars == Take(<<103, 43, 32, 228, 20013, 71, 128512>>, NumBadHex)

EditPositions == (1..MaxEditPos) \cup {16, 31, 32}

Edits ==
    {[kind |-> "none"]}
    \cup {[kind |-> "replace", pos |-> p, ch |-> ch] : p \in EditPositions, ch \in BadHexChars}
    \cup {[kind |-> "squeeze", pos |-> p, ch |-> ch] :
            p \in EditPositions, ch \in {x \in BadHexChars : len_utf8(x) > 1}}
    \cup {[kind |-> "truncate", len |-> n] : n \in (0..MaxTrunc) \cup {31}}
    \cup {[kind |-> "append", ch |-> ch] : ch \in BadHexChars \cup {48}}
    \cup {[kind |-> "spaces"]}

(* replace: one character for another.  squeeze: as many characters as ch *)
(* has bytes make room for ch, so the byte length stays.  spaces: a space *)
(* after digits 8, 12, 16 and 20 (test_whitespace_in_uuid).               *)
ApplyEdit(t, e) ==
    CASE e.kind = "none" -> t
      [] e.kind = "replace" -> [t EXCEPT ![e.pos] = e.ch]
      [] e.kind = "squeeze" ->
            LET last == Min(Len(t), e.pos + len_utf8(e.ch) - 1)
            IN  SubSeq(t, 1, e.pos - 1) \o <<e.ch>> \o SubSeq(t, last + 1, Len(t))
      [] e.kind = "truncate" -> SubSeq(t, 1, e.len)
      [] e.kind = "append" -> Append(t, e.ch)
      [] e.kind = "spaces" ->
            SubSeq(t, 1, 8) \o <<32>> \o SubSeq(t, 9, 12) \o <<32>> \o SubSeq(t, 13, 16)
            \o <<32>> \o SubSeq(t, 17, 20) \o <<32>> \o SubSeq(t, 21, Len(t))

(* Hyphen style 0: none.  1: after characters 8, 12, 16 and 20.  h >= 2: *)
(* one in front and one after every (h - 1) characters.                  *)
HyphenAfter(h, p) == (h = 1 /\ p \in {8, 12, 16, 20}) \/ (h >= 2 /\ p % (h - 1) = 0)

RECURSIVE HyphenateFrom(_, _, _)
HyphenateFrom(t, h, p) ==
    IF p > Len(t) THEN <<>>
    ELSE <<t[p]>> \o (IF HyphenAfter(h, p) THEN <<ChHyphen>> ELSE <<>>)
         \o HyphenateFrom(t, h, p + 1)

Hyphenate(t, h) == (IF h >= 2 THEN <<ChHyphen>> ELSE <<>>) \o HyphenateFrom(t, h, 1)

UuidTexts ==
    {Hyphenate(ApplyEdit(Render(bytes, c), e), h) :
        bytes \in UuidBytes, c \in 0..MaxCase, e \in Edits, h \in 0..MaxHyph}

(* What the entropy source can do: fail, or fill the buffer. *)
EntropyOutcomes == {None} \cup {Some(bytes) : bytes \in ByteArrays}

(* ------------------------------------------------------------------ *)
(* A caller of the library: one call at a time, its argument and its  *)
(* result; origin is the call whose output a decode was given.        *)
(* ------------------------------------------------------------------ *)

VARIABLES op, arg, ret, origin

vars == <<op, arg, ret, origin>>

NoCall == [tag |-> "None"]
NoOrigin == [op |-> "none"]

Init ==
    /\ op = "none"
    /\ arg = <<>>
    /\ ret = NoCall
    /\ origin = NoOrigin

Encode ==
    /\ op = "none"
    /\ \E data \in ByteArrays :
        /\ arg' = data
        /\ ret' = Ok(encode(data))
    /\ op' = "encode"
    /\ origin' = NoOrigin

Decode ==
    /\ op = "none"
    /\ \E b58 \in B58Strings :
        /\ arg' = b58
        /\ ret' = decode(b58)
    /\ op' = "decode"
    /\ origin' = NoOrigin

EncodeUuid ==
    /\ op = "none"
    /\ \E uuid_str \in UuidTexts :
        /\ arg' = uuid_str
        /\ ret' = encode_uuid(uuid_str)
    /\ op' = "encode_uuid"
    /\ origin' = NoOrigin

DecodeToUuid ==
    /\ op = "none"
    /\ \E b58 \in B58Strings :
        /\ arg' = b58
        /\ ret' = decode_to_uuid(b58)
    /\ op' = "decode_to_uuid"
    /\ origin' = NoOrigin

Generate ==
    /\ op = "none"
    /\ \E random \in EntropyOutcomes :
        /\ arg' = random
        /\ ret' = generate(random)
    /\ op' = "generate"
    /\ origin' = NoOrigin

(* The caller decodes the string the last call returned (test_round_trip, *)
(* test_uuid_version_and_variant).                                        *)
DecodeOutput ==
    /\ op \in {"encode", "encode_uuid", "generate"}
    /\ ret.tag = "Ok"
    /\ arg' = ret.val
    /\ ret' = decode(ret.val)
    /\ op' = "decode"
    /\ origin' = [op |-> op, arg |-> arg]

(* The caller encodes a second value, keeping the first and its encoding *)
(* to compare the two.                                                  *)
EncodeSecond ==
    /\ op = "encode"
    /\ origin = NoOrigin
    /\ \E data \in ByteArrays :
        /\ arg' = data
        /\ ret' = Ok(encode(data))
    /\ op' = "encode"
    /\ origin' = [op |-> "encode", arg |-> arg, ret |-> ret.val]

(* The caller encodes the bytes the last decode returned. *)
EncodeOutput ==
    /\ op = "decode"
    /\ ret.tag = "Ok"
    /\ arg' = ret.val
    /\ ret' = Ok(encode(ret.val))
    /\ op' = "encode"
    /\ origin' = [op |-> "decode", arg |-> arg]

Return ==
    /\ op # "none"
    /\ op' = "none"
    /\ arg' = <<>>
    /\ ret' = NoCall
    /\ origin' = NoOrigin

Next ==
    \/ Encode
    \/ Decode
    \/ EncodeUuid
    \/ DecodeToUuid
    \/ Generate
    \/ DecodeOutput
    \/ EncodeSecond
    \/ EncodeOutput
    \/ Return

Spec == Init /\ [][Next]_vars

(* ------------------------------------------------------------------ *)
(* Reference notions the properties are stated in                     *)
(* ------------------------------------------------------------------ *)

InAlphabet(ch) == \E j \in 1..Len(BASE58_ALPHABET) : BASE58_ALPHABET[j] = ch

RefDigit(ch) == (CHOOSE j \in 1..Len(BASE58_ALPHABET) : BASE58_ALPHABET[j] = ch) - 1

(* v * m + carry for a natural number v of any size, held as its base-256 *)
(* digits, least significant first, without high zero digits.             *)
RECURSIVE RefMulAdd(_, _, _, _)
RefMulAdd(v, m, i, carry) ==
    IF i > Len(v) THEN (IF carry > 0 THEN <<carry>> ELSE <<>>)
    ELSE <<(v[i] * m + carry) % 256>> \o RefMulAdd(v, m, i + 1, (v[i] * m + carry) \div 256)

(* The base-58 value of the first n characters of s, most significant *)
(* digit first.                                                       *)
RECURSIVE RefValue(_, _)
RefValue(s, n) ==
    IF n = 0 THEN <<>> ELSE RefMulAdd(RefValue(s, n - 1), 58, 1, RefDigit(s[n]))

(* v <= 2^128 - 1, and the 16-byte big-endian representation of such a v. *)
RefFits(v) == Len(v) <= 16
RefBigEndian(v) == [i \in 1..16 |-> IF 17 - i <= Len(v) THEN v[17 - i] ELSE 0]

RefLeadingOnes(s) ==
    IF \E i \in 1..Len(s) : s[i] # ChOne
    THEN (CHOOSE i \in 1..Len(s) : s[i] # ChOne /\ \A j \in 1..(i - 1) : s[j] = ChOne) - 1
    ELSE Len(s)

NotHyphen(ch) == ch # ChHyphen

RefWithoutHyphens(t) == SelectSeq(t, NotHyphen)

(* The length of a text in UTF-8 bytes, which is what the length of a *)
(* Rust string is.                                                    *)
RECURSIVE RefByteLength(_)
RefByteLength(t) ==
    IF Len(t) = 0 THEN 0
    ELSE RefByteLength(Tail(t))
         + (CASE t[1] <= 127 -> 1 [] t[1] > 127 /\ t[1] <= 2047 -> 2
              [] t[1] > 2047 /\ t[1] <= 65535 -> 3 [] OTHER -> 4)

(* Hex digits 0-9, a-f, A-F and the value of one. *)
RefIsLowerHex(ch) == ch \in (48..57) \cup (97..102)
RefIsHex(ch) == RefIsLowerHex(ch) \/ ch \in 65..70
RefHexValue(ch) ==
    CASE ch \in 48..57 -> ch - 48
      [] ch \in 97..102 -> ch - 97 + 10
      [] ch \in 65..70 -> ch - 65 + 10

(* The 16 bytes that 32 hex digits denote. *)
RefBytes(digits) ==
    [j \in 1..16 |-> RefHexValue(digits[2 * j - 1]) * 16 + RefHexValue(digits[2 * j])]

(* ------------------------------------------------------------------ *)
(* Properties                                                         *)
(* ------------------------------------------------------------------ *)

(* C1. Round trip: decoding the string encode returned for 16 bytes b *)
(* succeeds and returns exactly b, whatever the number of leading     *)
(* zero bytes of b.                                                   *)
C1_RoundTrip ==
    (op = "decode" /\ origin.op = "encode") => ret = Ok(origin.arg)

(* A round trip of bytes that start with zero bytes but are not all zero. *)
C1_Witness ==
    /\ op = "decode"
    /\ origin.op = "encode"
    /\ origin.arg[1] = 0 /\ origin.arg[2] = 0 /\ origin.arg[16] # 0
    /\ ret = Ok(origin.arg)

(* C2. Fixed width: encode returns exactly 22 characters, all of the  *)
(* alphabet; the digits plus one '1' per leading zero byte are at     *)
(* most 22 characters, and what encode returns is that string padded  *)
(* on the left with '1'.                                              *)
C2_FixedWidth ==
    op = "encode" =>
        /\ Len(ret.val) = 22
        /\ \A i \in 1..Len(ret.val) : InAlphabet(ret.val[i])
        /\ (\E k \in 1..16 : arg[k] # 0) =>
            LET raw == encoded(arg)
            IN  /\ Len(raw) <= 22
                /\ SubSeq(ret.val, 22 - Len(raw) + 1, 22) = raw
                /\ \A i \in 1..(22 - Len(raw)) : ret.val[i] = ChOne

(* An encoding that needed padding although the bytes start with zero. *)
C2_Witness ==
    /\ op = "encode"
    /\ arg[1] = 0
    /\ \E i \in 1..16 : arg[i] # 0
    /\ Len(encoded(arg)) < 22
    /\ Len(ret.val) = 22

(* C3. Decode value and overflow: for a non-empty string of alphabet  *)
(* characters with at most 22 leading '1', decode returns the 16-byte *)
(* big-endian representation of the string's base-58 value v when     *)
(* v <= 2^128 - 1, and Overflow when v > 2^128 - 1; never the         *)
(* too-many-leading-ones error, never a wrapped value.                *)
C3_DecodeValue ==
    (/\ op = "decode"
     /\ Len(arg) > 0
     /\ \A i \in 1..Len(arg) : InAlphabet(arg[i])
     /\ RefLeadingOnes(arg) <= 22) =>
        LET v == RefValue(arg, Len(arg))
        IN  IF RefFits(v) THEN ret = Ok(RefBigEndian(v)) ELSE ret = ErrOverflow

(* 22 leading '1' followed by digits whose value exceeds 2^128 - 1. *)
C3_Witness ==
    /\ op = "decode"
    /\ RefLeadingOnes(arg) = 22
    /\ Len(arg) > 22
    /\ \A i \in 1..Len(arg) : InAlphabet(arg[i])
    /\ ret = ErrOverflow

(* C4. Rejection: decode of the empty string, or of a string holding  *)
(* one of 0 O I l or a non-ASCII character anywhere, returns the      *)
(* InvalidBase58 error.                                               *)
C4_Rejection ==
    (/\ op = "decode"
     /\ \/ Len(arg) = 0
        \/ \E i \in 1..Len(arg) : arg[i] \in {48, 79, 73, 108} \/ arg[i] >= 128) =>
        ret.tag = "InvalidBase58"

(* C5. Leading-ones cap: decode of a string whose initial run of '1'  *)
(* is longer than 22 returns the too-many-leading-ones error,         *)
(* whatever follows the run.                                          *)
C5_LeadingOnesCap ==
    (op = "decode" /\ RefLeadingOnes(arg) > 22) => ret = ErrLeadingOnes

(* C6. No abort on caller input: encode_uuid returns a 22-character  *)
(* string, InvalidLength or InvalidUUID for every text, decode and    *)
(* decode_to_uuid return a value, InvalidBase58 or Overflow; none of  *)
(* them panics.                                                       *)
C6_NoAbort ==
    /\ op = "encode_uuid" =>
        /\ ret.tag \in {"Ok", "InvalidLength", "InvalidUUID"}
        /\ ret.tag = "Ok" => Len(ret.val) = 22
    /\ op \in {"decode", "decode_to_uuid"} =>
        ret.tag \in {"Ok", "InvalidBase58", "Overflow"}

(* C7. Malformed hex: a UUID text that is 32 long once its hyphens    *)
(* are removed and holds a character that is no hex digit makes       *)
(* encode_uuid return InvalidUUID.  Stated for texts that are 32 long *)
(* both in characters and in bytes, where it already fails.           *)
C7_MalformedHex ==
    (/\ op = "encode_uuid"
     /\ Len(RefWithoutHyphens(arg)) = 32
     /\ RefByteLength(RefWithoutHyphens(arg)) = 32
     /\ \E i \in 1..Len(arg) : arg[i] # ChHyphen /\ ~RefIsHex(arg[i])) =>
        ret.tag = "InvalidUUID"

C9_HyphenCaseInsensitive ==
    (/\ op = "encode_uuid"
     /\ Len(RefWithoutHyphens(arg)) = 32
     /\ \A i \in 1..Len(arg) : arg[i] = ChHyphen \/ RefIsHex(arg[i])) =>
        ret = Ok(encode(RefBytes(RefWithoutHyphens(arg))))

(* An accepted text that starts with a hyphen and holds uppercase and *)
(* lowercase letters.                                                 *)
C9_Witness ==
    /\ op = "encode_uuid"
    /\ Len(arg) > 32
    /\ arg[1] = ChHyphen
    /\ \E i \in 1..Len(arg) : arg[i] \in 65..70
    /\ \E i \in 1..Len(arg) : arg[i] \in 97..102
    /\ ret.tag = "Ok"

(* C10. Canonical output: when decode accepts s, decode_to_uuid(s) is *)
(* 36 characters, hyphens exactly at indices 8, 13, 18 and 23,        *)
(* lowercase hex digits elsewhere, and the 32 digits spell the bytes  *)
(* decode(s); when decode rejects s, decode_to_uuid(s) is that error. *)
C10_CanonicalOutput ==
    op = "decode_to_uuid" =>
        IF decode(arg).tag = "Ok"
        THEN /\ ret.tag = "Ok"
             /\ Len(ret.val) = 36
             /\ \A p \in 1..Len(ret.val) :
                    IF p - 1 \in {8, 13, 18, 23} THEN ret.val[p] = ChHyphen
                    ELSE RefIsLowerHex(ret.val[p])
             /\ RefBytes(RefWithoutHyphens(ret.val)) = decode(arg).val
        ELSE ret = decode(arg)

(* A formatted value with a byte below 16 and a letter digit. *)
C10_Witness ==
    /\ op = "decode_to_uuid"
    /\ ret.tag = "Ok"
    /\ \E j \in 1..16 : decode(arg).val[j] \in 10..15
    /\ \E p \in 1..Len(ret.val) : ret.val[p] \in 97..102

(* The bytes r with the top nibble of byte 6 made 0100 and the top two *)
(* bits of byte 8 made 10, the other 122 bits as they are.             *)
RefMarked(r) ==
    [i \in 1..16 |->
        IF i = 7 THEN CHOOSE x \in 0..255 : x \div 16 = 4 /\ x % 16 = r[7] % 16
        ELSE IF i = 9 THEN CHOOSE x \in 0..255 : x \div 64 = 2 /\ x % 64 = r[9] % 64
        ELSE r[i]]

(* C11. Generator marker bits: for the 16 bytes r the entropy source  *)
(* supplied, generate returns encode(r') with r' equal to r except    *)
(* for the version nibble 0100 in byte 6 and the variant bits 10 in   *)
(* byte 8; the result is 22 characters and decodes to r', so to a     *)
(* value with version nibble 4 and variant bits 10.                   *)
C11_GeneratorMarkerBits ==
    /\ (op = "generate" /\ arg.some) =>
        /\ ret = Ok(encode(RefMarked(arg.val)))
        /\ Len(ret.val) = 22
    /\ (op = "decode" /\ origin.op = "generate") =>
        /\ ret = Ok(RefMarked(origin.arg.val))
        /\ ret.val[7] \div 16 = 4
        /\ ret.val[9] \div 64 = 2

(* A generated string decoded, where the entropy had other bits set in *)
(* the version nibble and the variant bits.                            *)
C11_Witness ==
    /\ op = "decode"
    /\ origin.op = "generate"
    /\ origin.arg.val[7] \div 16 = 15
    /\ origin.arg.val[9] \div 64 = 3
    /\ ret.tag = "Ok"
    /\ ret.val[7] \div 16 = 4
    /\ ret.val[9] \div 64 = 2

(* The 0-based position of the first character of t that is neither a *)
(* hyphen nor a hex digit.                                            *)
RefFirstNonHex(t) ==
    (CHOOSE i \in 1..Len(t) :
        /\ t[i] # ChHyphen /\ ~RefIsHex(t[i])
        /\ \A j \in 1..(i - 1) : t[j] = ChHyphen \/ RefIsHex(t[j])) - 1

(* C12. Malformed-hex position: when encode_uuid returns InvalidUUID, *)
(* the position it records is that of the first non-hex character of *)
(* the UUID text, counted in the text as given or in the text without *)
(* its hyphens.                                                       *)
C12_MalformedHexPosition ==
    (op = "encode_uuid" /\ ret.tag = "InvalidUUID") =>
        ret.pos \in {RefFirstNonHex(arg), RefFirstNonHex(RefWithoutHyphens(arg))}

(* a < b for sequences of numbers, position by position from the    *)
(* front; for two 16-byte arrays this is the order of the big-endian *)
(* 128-bit integers, for two strings the byte-wise order.            *)
RefLess(a, b) ==
    \/ \E i \in 1..Min(Len(a), Len(b)) :
        a[i] < b[i] /\ \A j \in 1..(i - 1) : a[j] = b[j]
    \/ Len(a) < Len(b) /\ \A j \in 1..Len(a) : a[j] = b[j]

(* C13. Order preservation: for 16-byte values a and b, a < b as     *)
(* big-endian integers if and only if encode(a) < encode(b) in       *)
(* byte-wise order; so different values have different encodings.    *)
C13_OrderPreservation ==
    (op = "encode" /\ origin.op = "encode") =>
        /\ RefLess(origin.arg, arg) <=> RefLess(origin.ret, ret.val)
        /\ origin.arg # arg => origin.ret # ret.val

(* Two values with different numbers of leading zero bytes, the smaller *)
(* encoded first, whose encodings first differ in letters.              *)
C13_Witness ==
    /\ op = "encode"
    /\ origin.op = "encode"
    /\ origin.arg[1] = 0
    /\ arg[1] # 0
    /\ RefLess(origin.arg, arg)
    /\ RefLess(origin.ret, ret.val)
    /\ \E i \in 1..22 :
        /\ origin.ret[i] >= 65 /\ origin.ret[i] < ret.val[i]
        /\ \A j \in 1..(i - 1) : origin.ret[j] = ret.val[j]

(* s without its leading run of '1'. *)
RefStripOnes(s) == SubSeq(s, RefLeadingOnes(s) + 1, Len(s))

(* C14. Canonicalisation: for a string s of any length that decode   *)
(* accepts, encode(decode(s)) is s without its leading '1' run,      *)
(* left-padded with '1' to 22 characters; it equals s exactly when s *)
(* has 22 characters; and decode(s) is the value of s without its    *)
(* leading '1', so strings that differ only in the number of leading *)
(* '1' decode to the same bytes.                                     *)
C14_Canonicalisation ==
    (op = "encode" /\ origin.op = "decode") =>
        LET s == origin.arg
            digits == RefStripOnes(s)
        IN  /\ Len(digits) <= 22
            /\ Len(ret.val) = 22
            /\ \A i \in 1..22 :
                ret.val[i] = IF i <= 22 - Len(digits) THEN ChOne
                             ELSE digits[i - (22 - Len(digits))]
            /\ ret.val = s <=> Len(s) = 22
            /\ arg = RefBigEndian(RefValue(digits, Len(digits)))

(* An accepted string longer than 22 characters, 22 of them leading '1', *)
(* re-encoded to its last 22 characters.                                 *)
C14_Witness ==
    /\ op = "encode"
    /\ origin.op = "decode"
    /\ Len(origin.arg) > 22
    /\ RefLeadingOnes(origin.arg) = 22
    /\ ret.val # origin.arg
    /\ ret.val = RefStripOnes(origin.arg)

====
